---- MODULE Spec2Model ----
(***************************************************************************)
(* Label multisets of elf.label_multiset.create: construction from a dense *)
(* label array, blockwise downsampling and grid-wise merging.              *)
(*                                                                         *)
(* Arrays are 0-based in the code; sequences here are 1-based, so element  *)
(* i of an array a is a[i + 1].  All index VALUES (offsets, block ids,     *)
(* flat voxel indices, grid coordinates) keep the code's 0-based numbers.  *)
(***************************************************************************)
EXTENDS Integers, Sequences, FiniteSets, TLC

\* ---- bounds ------------------------------------------------------------
MaxVoxels == 4      \* largest number of voxels of the label volume
MaxDim == 2         \* largest number of axes of the label volume
MaxLabel == 1       \* label ids are 0..MaxLabel
MaxScale == 2       \* largest scale factor per axis

\* ---- arithmetic and sequence helpers -------------------------------------
RECURSIVE Prod(_)
Prod(s) == IF Len(s) = 0 THEN 1 ELSE Head(s) * Prod(Tail(s))

RECURSIVE SumSeq(_)
SumSeq(s) == IF Len(s) = 0 THEN 0 ELSE Head(s) + SumSeq(Tail(s))

CeilDiv(a, b) == (a + b - 1) \div b

Min2(a, b) == IF a < b THEN a ELSE b

SetMin(S) == CHOOSE x \in S : \A y \in S : x <= y

RECURSIVE SortedSeq(_)
SortedSeq(S) == IF S = {} THEN <<>>
                ELSE LET x == SetMin(S) IN <<x>> \o SortedSeq(S \ {x})

Range(s) == {s[i] : i \in 1..Len(s)}

\* the sequence s with its elements computed once (an array in memory)
Array(s) == s \o <<>>

\* 0-based position of x in the sequence s (x occurs in s)
IndexOf(s, x) == (CHOOSE i \in 1..Len(s) : s[i] = x) - 1

\* ---- numpy ---------------------------------------------------------------
\* np.ravel_multi_index for one coordinate tuple, C-order (last axis fastest)
RECURSIVE RavelMultiIndex(_, _)
RavelMultiIndex(coords, shape) ==
    IF Len(coords) = 0 THEN 0
    ELSE LET n == Len(coords)
         IN  RavelMultiIndex(SubSeq(coords, 1, n - 1), SubSeq(shape, 1, n - 1)) * shape[n]
             + coords[n]

\* np.ravel_multi_index raises ValueError on a coordinate outside the shape
RavelInRange(coords, shape) ==
    \A d \in 1..Len(shape) : coords[d] >= 0 /\ coords[d] < shape[d]

\* inverse of RavelMultiIndex: the coordinates of flat index i in C-order
RECURSIVE UnravelIndex(_, _)
UnravelIndex(i, shape) ==
    IF Len(shape) = 0 THEN <<>>
    ELSE LET n == Len(shape)
         IN  Append(UnravelIndex(i \div shape[n], SubSeq(shape, 1, n - 1)), i % shape[n])

\* all coordinate tuples of an array of the given shape
Coords(shape) == {c \in [1..Len(shape) -> 0..MaxVoxels] :
                     \A d \in 1..Len(shape) : c[d] < shape[d]}

\* ndarray.flatten(): the elements in C-order
Flatten(arr) ==
    Array([i \in 1..Prod(arr.shape) |-> arr.data[UnravelIndex(i - 1, arr.shape)]])

\* np.unique(a): the sorted distinct values
Unique(flat) == SortedSeq(Range(flat))

\* np.unique(a, return_inverse=True)[1]: index of every element in Unique(a)
UniqueInverse(flat) ==
    LET u == Unique(flat) IN Array([i \in 1..Len(flat) |-> IndexOf(u, flat[i])])

\* np.ones(n)
Ones(n) == Array([i \in 1..n |-> 1])

\* np.zeros(n)
Zeros(n) == Array([i \in 1..n |-> 0])

\* ---- LabelMultiset -------------------------------------------------------
\* LabelMultiset(argmax, offsets, ids, counts, shape): offsets given to the
\* constructor are start positions in ids/counts; the distinct ones are the
\* entry_offsets, the attribute offsets is each voxel's entry index, and an
\* entry extends to the next entry offset (the last one to the end of ids).
LabelMultiset(argmax, offsets, ids, counts, shape) ==
    LET uo == Unique(offsets)
    IN  [type |-> "LabelMultiset",
         shape |-> shape,
         argmax |-> argmax,
         offsets |-> UniqueInverse(offsets),
         ids |-> ids,
         counts |-> counts,
         entry_offsets |-> uo,
         entry_sizes |-> Array([i \in 1..Len(uo) |->
                            (IF i < Len(uo) THEN uo[i + 1] ELSE Len(ids)) - uo[i]])]

\* a value that is not a LabelMultiset (Python's None), with the same fields
None == [type |-> "NoneType", shape |-> <<>>, argmax |-> <<>>, offsets |-> <<>>,
         ids |-> <<>>, counts |-> <<>>, entry_offsets |-> <<>>, entry_sizes |-> <<>>]

IsLabelMultiset(x) == x.type = "LabelMultiset"

\* the histogram of entry e (0-based entry index) as its (id, count) pairs
EntryPairs(ids, counts, off, size) ==
    Array([j \in 1..size |-> <<ids[off + j], counts[off + j]>>])

EntryOf(x, e) == EntryPairs(x.ids, x.counts, x.entry_offsets[e + 1], x.entry_sizes[e + 1])

\* canonical signature of a histogram: its pairs sorted by id
Signature(pairs) ==
    LET idsOf == SortedSeq({pairs[j][1] : j \in 1..Len(pairs)})
    IN  Array([j \in 1..Len(idsOf) |->
            <<idsOf[j], pairs[CHOOSE k \in 1..Len(pairs) : pairs[k][1] = idsOf[j]][2]>>])

\* ---- create_multiset_from_labels ------------------------------------------
CreateArgmaxMut(labels) == [i \in 1..Prod(labels.shape) |->
                               labels.data[UnravelIndex(Prod(labels.shape) - i, labels.shape)]]
CreateArgmax(labels) == Flatten(labels)

CreateIds(labels) == Unique(Flatten(labels))

CreateOffsets(labels) == UniqueInverse(Flatten(labels))

CreateCounts(labels) == Ones(Len(CreateIds(labels)))

create_multiset_from_labels(labels) ==
    LabelMultiset(CreateArgmax(labels), CreateOffsets(labels), CreateIds(labels),
                  CreateCounts(labels), labels.shape)

\* ---- nifty.tools.blocking --------------------------------------------------
\* blocking([0]*ndim, shape, blockShape).blocksPerAxis
BlocksPerAxis(shape, blockShape) ==
    [d \in 1..Len(shape) |-> CeilDiv(shape[d], blockShape[d])]

\* blocking.numberOfBlocks
NumberOfBlocks(shape, blockShape) == Prod(BlocksPerAxis(shape, blockShape))

\* blocking.getBlock(blockId): blocks are numbered in C-order and clipped at
\* the outer boundary
GetBlock(shape, blockShape, blockId) ==
    LET pos == UnravelIndex(blockId, BlocksPerAxis(shape, blockShape))
        begin == [d \in 1..Len(shape) |-> pos[d] * blockShape[d]]
        end == [d \in 1..Len(shape) |-> Min2(begin[d] + blockShape[d], shape[d])]
    IN  [begin |-> begin, end |-> end,
         shape |-> [d \in 1..Len(shape) |-> end[d] - begin[d]]]

\* get_indices(block_id) of merge_multisets: np.mgrid over the block's
\* bounding box, ravelled into the global shape; the block's voxels in the
\* block's own C-order
get_indices(shape, blockShape, block_id) ==
    LET block == GetBlock(shape, blockShape, block_id)
    IN  Array([j \in 1..Prod(block.shape) |->
            LET loc == UnravelIndex(j - 1, block.shape)
            IN  RavelMultiIndex([d \in 1..Len(shape) |-> block.begin[d] + loc[d]], shape)])

\* ---- nifty.tools.downsampleMultiset ----------------------------------------
\* count of id in the histogram pairs (0 when absent)
CountIn(pairs, id) ==
    SumSeq([j \in 1..Len(pairs) |-> IF pairs[j][1] = id THEN pairs[j][2] ELSE 0])

\* the histograms of the given voxels merged by summing the counts per id
CombinedHistogram(voxels, offsets, entry_sizes, entry_offsets, ids, counts) ==
    LET hist(v) == EntryPairs(ids, counts, entry_offsets[offsets[v + 1] + 1],
                              entry_sizes[offsets[v + 1] + 1])
        present == UNION {{hist(voxels[j])[k][1] : k \in 1..Len(hist(voxels[j]))} :
                            j \in 1..Len(voxels)}
        sorted == SortedSeq(present)
    IN  Array([k \in 1..Len(sorted) |->
            <<sorted[k],
              SumSeq([j \in 1..Len(voxels) |-> CountIn(hist(voxels[j]), sorted[k])])>>])

\* p ranks before q: higher count, ties by ascending id
RanksBefore(p, q) == p[2] > q[2] \/ (p[2] = q[2] /\ p[1] < q[1])

\* keep the restrict_set ids with the highest counts (-1: keep all)
Restrict(pairs, restrict_set) ==
    IF restrict_set = -1 \/ Len(pairs) <= restrict_set THEN pairs
    ELSE LET keep == {j \in 1..Len(pairs) :
                        Cardinality({k \in 1..Len(pairs) : RanksBefore(pairs[k], pairs[j])})
                            < restrict_set}
             kept == SortedSeq(keep)
         IN  Array([j \in 1..Len(kept) |-> pairs[kept[j]]])

\* the id with the maximal count, ties by ascending id
ArgMaxOf(pairs) ==
    pairs[CHOOSE j \in 1..Len(pairs) :
            \A k \in 1..Len(pairs) : ~RanksBefore(pairs[k], pairs[j])][1]

\* 0-based index of the entry of the table (ids, counts, starts, sizes) with
\* the given signature, or -1
FindEntry(ids, counts, starts, sizes, sig) ==
    LET hits == {e \in 1..Len(sizes) :
                    Signature(EntryPairs(ids, counts, starts[e], sizes[e])) = sig}
    IN  IF hits = {} THEN -1 ELSE SetMin(hits) - 1

\* one output voxel per block, in block order; acc is the output so far
RECURSIVE DownsampleBlocks(_, _, _, _, _, _, _, _, _, _)
DownsampleBlocks(shape, blockShape, blockId, offsets, entry_sizes, entry_offsets, ids, counts, restrict_set, acc) ==
    IF blockId >= NumberOfBlocks(shape, blockShape) THEN acc
    ELSE LET voxels == get_indices(shape, blockShape, blockId)
             hist == Restrict(CombinedHistogram(voxels, offsets, entry_sizes,
                                                entry_offsets, ids, counts),
                              restrict_set)
             found == FindEntry(acc.ids, acc.counts, acc.starts, acc.sizes, Signature(hist))
             isNew == found = -1
             off == IF isNew THEN Len(acc.ids) ELSE acc.starts[found + 1]
             next == [argmax |-> Append(acc.argmax, ArgMaxOf(hist)),
                      offsets |-> Append(acc.offsets, off),
                      ids |-> IF isNew
                              THEN acc.ids \o [j \in 1..Len(hist) |-> hist[j][1]]
                              ELSE acc.ids,
                      counts |-> IF isNew
                                 THEN acc.counts \o [j \in 1..Len(hist) |-> hist[j][2]]
                                 ELSE acc.counts,
                      starts |-> IF isNew THEN Append(acc.starts, off) ELSE acc.starts,
                      sizes |-> IF isNew THEN Append(acc.sizes, Len(hist)) ELSE acc.sizes]
         IN  DownsampleBlocks(shape, blockShape, blockId + 1, offsets, entry_sizes,
                              entry_offsets, ids, counts, restrict_set, next)

downsampleMultiset(shape, blockShape, offsets, entry_sizes, entry_offsets, ids, counts, restrict_set) ==
    DownsampleBlocks(shape, blockShape, 0, offsets, entry_sizes, entry_offsets,
                     ids, counts, restrict_set,
                     [argmax |-> <<>>, offsets |-> <<>>, ids |-> <<>>, counts |-> <<>>,
                      starts |-> <<>>, sizes |-> <<>>])

\* ---- downsample_multiset ---------------------------------------------------
\* the block shape handed to nt.blocking
DownsampleBlockShapeMut(scale_factor) == [d \in 1..Len(scale_factor) |-> 1]
DownsampleBlockShape(scale_factor) == scale_factor

\* new_shape = tuple(int(ceil(sh / sc)) ...)
NewShapeMut(shape, scale_factor) ==
    [d \in 1..Len(shape) |-> shape[d] \div scale_factor[d]]
NewShape(shape, scale_factor) ==
    [d \in 1..Len(shape) |-> CeilDiv(shape[d], scale_factor[d])]

\* the result for a LabelMultiset and positive scale factors
downsample_multiset(multiset, scale_factor, restrict_set) ==
    LET out == downsampleMultiset(multiset.shape, DownsampleBlockShape(scale_factor),
                                  multiset.offsets, multiset.entry_sizes,
                                  multiset.entry_offsets, multiset.ids, multiset.counts,
                                  restrict_set)
    IN  LabelMultiset(out.argmax, out.offsets, out.ids, out.counts,
                      NewShape(multiset.shape, scale_factor))

\* ---- nifty.tools.MultisetMerger ---------------------------------------------
\* MultisetMerger(unique_offsets, entry_sizes, ids, counts): the running
\* global entry table, seeded with the given entries
MultisetMerger(unique_offsets, entry_sizes, ids, counts) ==
    [starts |-> unique_offsets, sizes |-> entry_sizes, ids |-> ids, counts |-> counts]

\* fold local entry e, e+1, ... into the table; out collects, for each local
\* entry in order, the offset of its global entry
RECURSIVE MergerFold(_, _, _, _, _, _, _)
MergerFold(helper, e, entry_sizes, ids, counts, entry_offsets, out) ==
    IF e > Len(entry_offsets) THEN [helper |-> helper, new_offsets |-> out]
    ELSE LET pairs == EntryPairs(ids, counts, entry_offsets[e], entry_sizes[e])
             found == FindEntry(helper.ids, helper.counts, helper.starts, helper.sizes,
                                Signature(pairs))
             isNew == found = -1
             off == IF isNew THEN Len(helper.ids) ELSE helper.starts[found + 1]
             next == IF isNew
                     THEN [starts |-> Append(helper.starts, off),
                           sizes |-> Append(helper.sizes, Len(pairs)),
                           ids |-> helper.ids \o [j \in 1..Len(pairs) |-> pairs[j][1]],
                           counts |-> helper.counts \o [j \in 1..Len(pairs) |-> pairs[j][2]]]
                     ELSE helper
         IN  MergerFold(next, e + 1, entry_sizes, ids, counts, entry_offsets,
                        Append(out, off))

\* merge_helper.update(unique_offsets, entry_sizes, ids, counts, entry_offsets)
MergerUpdate(helper, unique_offsets, entry_sizes, ids, counts, entry_offsets) ==
    MergerFold(helper, 1, entry_sizes, ids, counts, entry_offsets, <<>>)

\* ---- merge_multisets --------------------------------------------------------
\* the isinstance check on the argument: container is "list", "tuple" or
\* another iterable
TypeCheckRaises(container, multisets) ==
    /\ ~(container \in {"list", "tuple"})
    /\ ~(\A i \in 1..Len(multisets) : IsLabelMultiset(multisets[i]))

\* _compute_multiset_vector: err is the exception raised ("none" if none),
\* vector the multisets arranged in C-order
_compute_multiset_vector(multisets, grid_positions, shape, chunks) ==
    LET n_sets == Len(multisets)
        n_blocks == NumberOfBlocks(shape, chunks)
        grid_shape == BlocksPerAxis(shape, chunks)
        positions == [k \in 1..Len(grid_positions) |->
                         RavelMultiIndex(grid_positions[k], grid_shape)]
        attrFails(k) == ~IsLabelMultiset(multisets[positions[k] + 1])
        shapeFails(k) == multisets[positions[k] + 1].shape
                             # GetBlock(shape, chunks, positions[k]).shape
        failing == {k \in 1..Len(positions) : attrFails(k) \/ shapeFails(k)}
        multiset_vector == [p \in 1..n_sets |->
                               IF p - 1 \in Range(positions) THEN multisets[p] ELSE None]
        fail(e) == [err |-> e, vector |-> <<>>]
    IN  IF n_blocks # n_sets THEN fail("ValueError")
        ELSE IF \E k \in 1..Len(grid_positions) :
                    ~RavelInRange(grid_positions[k], grid_shape)
        THEN fail("ValueError")
        ELSE IF \E k \in 1..Len(positions) : positions[k] >= n_sets
        THEN fail("ValueError")
        ELSE IF failing # {}
        THEN fail(IF attrFails(SetMin(failing)) THEN "AttributeError" ELSE "ValueError")
        ELSE IF \E p \in 1..n_sets : multiset_vector[p] = None
        THEN fail("ValueError")
        ELSE [err |-> "none", vector |-> multiset_vector]

\* the offsets handed to the merge helper for the first multiset
SeedOffsetsMut(first) == first.offsets
SeedOffsets(first) == Unique(first.offsets)

\* a[indices] = values: values has one element per index or a single one
\* that is broadcast; any other length raises ValueError
CanAssign(indices, values) == Len(values) = Len(indices) \/ Len(values) = 1

AssignIndexed(a, indices, values) ==
    Array([i \in 1..Len(a) |->
        IF \E j \in 1..Len(indices) : indices[j] = i - 1
        THEN LET j == CHOOSE j \in 1..Len(indices) : indices[j] = i - 1
             IN  IF Len(values) = 1 THEN values[1] ELSE values[j]
        ELSE a[i]])

\* ---- inputs ----------------------------------------------------------------
Labels == 0..MaxLabel

Shapes == {s \in UNION {[1..d -> 1..MaxVoxels] : d \in 1..MaxDim} : Prod(s) <= MaxVoxels}

Volumes == UNION {{[shape |-> s, data |-> f] : f \in [Coords(s) -> Labels]} : s \in Shapes}

\* valid scale factors and the invalid ones 0 and -1
ScaleFactors(ndim) == [1..ndim -> -1..MaxScale]

RestrictSets == {-1, 1}

ChunkShapes(shape) == {c \in [1..Len(shape) -> 1..MaxVoxels] :
                          \A d \in 1..Len(shape) : c[d] <= shape[d]}

\* the part of the volume covered by a block
ChunkLabels(labels, chunks, blockId) ==
    LET block == GetBlock(labels.shape, chunks, blockId)
    IN  [shape |-> block.shape,
         data |-> [c \in Coords(block.shape) |->
                      labels.data[[d \in 1..Len(block.shape) |-> block.begin[d] + c[d]]]]]

\* orders in which the chunks and the grid positions are supplied
Orders(n) == {[i \in 1..n |-> i], [i \in 1..n |-> n + 1 - i], [i \in 1..n |-> (i % n) + 1]}

\* the arguments of merge_multisets tried for a volume and a chunk shape
MergeArguments(labels, chunks) ==
    LET n == NumberOfBlocks(labels.shape, chunks)
        grid_shape == BlocksPerAxis(labels.shape, chunks)
        chunk(b) == create_multiset_from_labels(ChunkLabels(labels, chunks, b))
        cell(b) == UnravelIndex(b, grid_shape)
        sets == [i \in 1..n |-> chunk(i - 1)]
        cells == [i \in 1..n |-> cell(i - 1)]
        arg(c, mss, gps) == [container |-> c, multisets |-> mss, grid_positions |-> gps]
    IN  {arg("list", [i \in 1..n |-> chunk(so[i] - 1)], [i \in 1..n |-> cell(po[i] - 1)]) :
            so \in Orders(n), po \in Orders(n)}
        \cup {arg("list", sets, SubSeq(cells, 1, n - 1)),
              arg("list", SubSeq(sets, 1, n - 1), SubSeq(cells, 1, n - 1)),
              arg("list", sets, Append(cells, cell(0))),
              arg("list", sets, Append(cells, grid_shape)),
              arg("list", [sets EXCEPT ![n] = None], cells),
              arg("array", [sets EXCEPT ![n] = None], cells),
              arg("array", sets, cells)}

\* ---- state -----------------------------------------------------------------
VARIABLES
    labels,   \* the dense label volume the caller works on
    ms,       \* the multiset the caller holds (None before the first result)
    err,      \* the exception of the last call, "none" if it returned; an
              \* exception is not caught, so no call follows it
    stage,    \* how far the last call got
    call,     \* the last call and its arguments
    pc,       \* "idle", or "merging" inside merge_multisets' loop
    m         \* the locals of the running merge_multisets

vars == <<labels, ms, err, stage, call, pc, m>>

NoCall == [name |-> "none", input |-> None, scale_factor |-> <<>>, restrict_set |-> -1,
           container |-> "list", multisets |-> <<>>, grid_positions |-> <<>>,
           shape |-> <<>>, chunks |-> <<>>]

NoHelper == [starts |-> <<>>, sizes |-> <<>>, ids |-> <<>>, counts |-> <<>>]

NoLocals == [multisets |-> <<>>, argmax |-> <<>>, offsets |-> <<>>,
             merge_helper |-> NoHelper, block_id |-> 0]

Init ==
    /\ labels \in Volumes
    /\ ms = None
    /\ err = "none"
    /\ stage = "init"
    /\ call = NoCall
    /\ pc = "idle"
    /\ m = NoLocals

\* ms = create_multiset_from_labels(labels)
Create ==
    /\ pc = "idle"
    /\ err = "none"
    /\ ms' = create_multiset_from_labels(labels)
    /\ err' = "none"
    /\ stage' = "returned"
    /\ call' = [NoCall EXCEPT !.name = "create"]
    /\ UNCHANGED <<labels, pc, m>>

\* what a non-positive block shape can do past the missing check: the
\* native blocking code divides by it, and line 43 divides by it again
UndefinedOutcomes(scale_factor) ==
    {"NativeFault", "Unspecified"}
        \cup (IF \E d \in 1..Len(scale_factor) : scale_factor[d] = 0
              THEN {"ZeroDivisionError"} ELSE {})

\* ms = downsample_multiset(ms, scale_factor, restrict_set)
Downsample ==
    /\ pc = "idle"
    /\ err = "none"
    /\ \E scale_factor \in ScaleFactors(Len(labels.shape)), restrict_set \in RestrictSets :
        /\ call' = [NoCall EXCEPT !.name = "downsample", !.input = ms,
                                  !.scale_factor = scale_factor,
                                  !.restrict_set = restrict_set]
        /\ IF ~IsLabelMultiset(ms)
           THEN /\ err' = "ValueError"
                /\ stage' = "type_check"
                /\ ms' = ms
           ELSE IF \E d \in 1..Len(scale_factor) : scale_factor[d] <= 0
           THEN /\ err' \in UndefinedOutcomes(scale_factor)
                /\ stage' = "blocking"
                /\ ms' = ms
           ELSE /\ err' = "none"
                /\ stage' = "returned"
                /\ ms' = downsample_multiset(ms, scale_factor, restrict_set)
    /\ UNCHANGED <<labels, pc, m>>

\* merge_multisets up to the loop: type check, arrangement, allocation and
\* the first multiset.  Its multisets are built from the chunks of the
\* volume and it never reads ms, so it is called while the caller holds none.
MergeBegin ==
    /\ pc = "idle"
    /\ err = "none"
    /\ ms = None
    /\ \E chunks \in ChunkShapes(labels.shape) :
       \E a \in MergeArguments(labels, chunks) :
        LET shape == labels.shape
            arranged == _compute_multiset_vector(a.multisets, a.grid_positions,
                                                 shape, chunks)
            first == arranged.vector[1]
            new_size == Prod(shape)
            new_indices == get_indices(shape, chunks, 0)
        IN  /\ call' = [NoCall EXCEPT !.name = "merge", !.container = a.container,
                                      !.multisets = a.multisets,
                                      !.grid_positions = a.grid_positions,
                                      !.shape = shape, !.chunks = chunks]
            /\ IF TypeCheckRaises(a.container, a.multisets)
               THEN /\ err' = "ValueError"
                    /\ stage' = "type_check"
                    /\ UNCHANGED <<pc, m>>
               ELSE IF arranged.err # "none"
               THEN /\ err' = arranged.err
                    /\ stage' = "arrange"
                    /\ UNCHANGED <<pc, m>>
               ELSE /\ err' = "none"
                    /\ stage' = "scatter"
                    /\ pc' = "merging"
                    /\ m' = [multisets |-> arranged.vector,
                             argmax |-> AssignIndexed(Zeros(new_size), new_indices,
                                                      first.argmax),
                             offsets |-> AssignIndexed(Zeros(new_size), new_indices,
                                                       first.offsets),
                             merge_helper |-> MultisetMerger(SeedOffsets(first),
                                                             first.entry_sizes,
                                                             first.ids, first.counts),
                             block_id |-> 1]
    /\ UNCHANGED <<labels, ms>>

\* one iteration of the loop over multisets[1:]
MergeStep ==
    /\ pc = "merging"
    /\ m.block_id < Len(m.multisets)
    /\ LET cur == m.multisets[m.block_id + 1]
           new_indices == get_indices(call.shape, call.chunks, m.block_id)
           upd == MergerUpdate(m.merge_helper, Unique(cur.offsets), cur.entry_sizes,
                               cur.ids, cur.counts, cur.entry_offsets)
       IN  IF CanAssign(new_indices, cur.argmax) /\ CanAssign(new_indices, upd.new_offsets)
           THEN /\ m' = [m EXCEPT !.argmax = AssignIndexed(@, new_indices, cur.argmax),
                                  !.offsets = AssignIndexed(@, new_indices, upd.new_offsets),
                                  !.merge_helper = upd.helper,
                                  !.block_id = @ + 1]
                /\ UNCHANGED <<err, stage, pc>>
           ELSE /\ err' = "ValueError"
                /\ pc' = "idle"
                /\ m' = NoLocals
                /\ UNCHANGED stage
    /\ UNCHANGED <<labels, ms, call>>

\* after the loop: the merged multiset from the helper's ids and counts
MergeReturn ==
    /\ pc = "merging"
    /\ m.block_id >= Len(m.multisets)
    /\ ms' = LabelMultiset(m.argmax, m.offsets, m.merge_helper.ids,
                           m.merge_helper.counts, call.shape)
    /\ stage' = "returned"
    /\ pc' = "idle"
    /\ m' = NoLocals
    /\ UNCHANGED <<labels, err, call>>

Next == Create \/ Downsample \/ MergeBegin \/ MergeStep \/ MergeReturn

Spec == Init /\ [][Next]_vars

\* ---- properties --------------------------------------------------------------
MergeDone == call.name = "merge" /\ pc = "idle"

MergeReturned == MergeDone /\ err = "none" /\ stage = "returned"

DownsampleReturned == call.name = "downsample" /\ err = "none" /\ stage = "returned"

GridShape == BlocksPerAxis(call.shape, call.chunks)

\* the supplied grid positions are the cells of the grid, each once, and
\* every supplied chunk is the multiset of the part of the volume at the
\* grid position it is paired with
ConsistentPairs ==
    /\ Len(call.multisets) = NumberOfBlocks(call.shape, call.chunks)
    /\ Len(call.grid_positions) = Len(call.multisets)
    /\ \A k \in 1..Len(call.grid_positions) :
          /\ RavelInRange(call.grid_positions[k], GridShape)
          /\ call.multisets[k] = create_multiset_from_labels(
                ChunkLabels(labels, call.chunks,
                            RavelMultiIndex(call.grid_positions[k], GridShape)))
    /\ \A b \in 0..(Len(call.multisets) - 1) :
          \E k \in 1..Len(call.grid_positions) :
              RavelMultiIndex(call.grid_positions[k], GridShape) = b

\* the pairs are supplied in C-order of their grid positions
InCOrder ==
    \A k \in 1..Len(call.grid_positions) :
        RavelMultiIndex(call.grid_positions[k], GridShape) = k - 1

\* C1: merging the multisets of the chunks of a volume, supplied with their
\* grid positions in any order, gives the argmax of the multiset of the
\* whole volume, voxel for voxel.
C1_MergeEquivalence ==
    (MergeDone /\ ConsistentPairs) =>
        /\ MergeReturned
        /\ ms.argmax = create_multiset_from_labels(labels).argmax

\* C2: the multiset created from a label array has the array as argmax
\* (element-wise, C-order), the sorted distinct labels as ids, counts all 1,
\* and as many entries as distinct labels.
C2_CreateRoundTrip ==
    call.name = "create" =>
        LET distinct == {labels.data[c] : c \in Coords(labels.shape)}
        IN  /\ Len(ms.argmax) = Prod(labels.shape)
            /\ \A c \in Coords(labels.shape) :
                  ms.argmax[RavelMultiIndex(c, labels.shape) + 1] = labels.data[c]
            /\ Range(ms.ids) = distinct
            /\ \A i \in 1..(Len(ms.ids) - 1) : ms.ids[i] < ms.ids[i + 1]
            /\ Len(ms.counts) = Len(ms.ids)
            /\ \A i \in 1..Len(ms.counts) : ms.counts[i] = 1
            /\ Len(ms.entry_sizes) = Cardinality(distinct)
            /\ Len(ms.entry_offsets) = Cardinality(distinct)

C2_Witness ==
    /\ call.name = "create"
    /\ Len(labels.shape) = 2
    /\ labels.shape[1] > 1 /\ labels.shape[2] > 1
    /\ Len(ms.ids) = 2
    /\ ms.argmax[1] > ms.argmax[2]

\* the voxels of the volume that fall into output voxel o when downsampling
\* by scale_factor
BlockVoxels(o, scale_factor) ==
    {c \in Coords(labels.shape) :
        \A d \in 1..Len(labels.shape) : c[d] \div scale_factor[d] = o[d]}

\* C3: downsampling the created multiset without restriction conserves the
\* histograms: the entry of every output voxel counts every id as often as
\* it occurs in the voxel's block, and its counts sum to the block's size
\* (the product of the scale factors, clipped at the boundary).
C3_HistogramConservation ==
    (DownsampleReturned /\ call.restrict_set = -1
        /\ call.input = create_multiset_from_labels(labels)) =>
        \A o \in Coords(ms.shape) :
            LET entry == EntryOf(ms, ms.offsets[RavelMultiIndex(o, ms.shape) + 1])
                block == BlockVoxels(o, call.scale_factor)
            IN  /\ SumSeq([j \in 1..Len(entry) |-> entry[j][2]]) = Cardinality(block)
                /\ Cardinality(block) =
                      Prod([d \in 1..Len(labels.shape) |->
                               Min2(call.scale_factor[d],
                                    labels.shape[d] - o[d] * call.scale_factor[d])])
                /\ \A id \in Labels :
                      CountIn(entry, id) = Cardinality({c \in block : labels.data[c] = id})
                /\ \A j \in 1..Len(entry) : entry[j][2] > 0
                /\ \A j, k \in 1..Len(entry) : j # k => entry[j][1] # entry[k][1]

C3_Witness ==
    /\ DownsampleReturned /\ call.restrict_set = -1
    /\ call.input = create_multiset_from_labels(labels)
    /\ \E d \in 1..Len(labels.shape) :
          call.scale_factor[d] = 2 /\ labels.shape[d] = 3
    /\ \E e \in 0..(Len(ms.entry_sizes) - 1) : Len(EntryOf(ms, e)) = 2

\* C4: merge_multisets raises ValueError whenever the number of grid
\* positions differs from the number of multisets.
C4_CountMismatchRaises ==
    (MergeDone /\ Len(call.grid_positions) # Len(call.multisets)) => err = "ValueError"

\* C5: for multisets paired one to one with the cells of the grid,
\* merge_multisets raises ValueError exactly if some chunk's shape differs
\* from the shape of the block at the grid position paired with it.
C5_ShapeValidationExact ==
    (/\ MergeDone
     /\ \A i \in 1..Len(call.multisets) : IsLabelMultiset(call.multisets[i])
     /\ Len(call.multisets) = NumberOfBlocks(call.shape, call.chunks)
     /\ Len(call.grid_positions) = Len(call.multisets)
     /\ \A k \in 1..Len(call.grid_positions) :
           RavelInRange(call.grid_positions[k], GridShape)
     /\ \A b \in 0..(Len(call.multisets) - 1) :
           \E k \in 1..Len(call.grid_positions) :
               RavelMultiIndex(call.grid_positions[k], GridShape) = b) =>
        (err = "ValueError" <=>
            \E k \in 1..Len(call.multisets) :
                call.multisets[k].shape #
                    GetBlock(call.shape, call.chunks,
                             RavelMultiIndex(call.grid_positions[k], GridShape)).shape)

\* C6: downsample_multiset raises ValueError, before any downsampling work,
\* whenever an axis of scale_factor is zero or negative.
C6_NonPositiveScaleRaises ==
    (call.name = "downsample"
        /\ \E d \in 1..Len(call.scale_factor) : call.scale_factor[d] <= 0) =>
        (err = "ValueError" /\ stage = "type_check")

\* C7: merge_multisets' type check raises ValueError whenever the supplied
\* list contains an element that is not a LabelMultiset, so that such input
\* never reaches the grid arrangement.
C7_TypeCheckRejects ==
    (MergeDone /\ \E i \in 1..Len(call.multisets) : ~IsLabelMultiset(call.multisets[i])) =>
        (err = "ValueError" /\ stage = "type_check")

\* C8: every multiset returned by create, downsample (positive scale
\* factors) and merge has one offset and one argmax per voxel of its shape;
\* a downsample result has shape ceil(S / scale_factor), the blocks per axis
\* of its blocking, and a merge result has the target shape.
C8_SizeInvariant ==
    IsLabelMultiset(ms) =>
        /\ Len(ms.offsets) = Prod(ms.shape)
        /\ Len(ms.argmax) = Prod(ms.shape)
        /\ DownsampleReturned =>
              /\ Len(ms.shape) = Len(call.input.shape)
              /\ \A d \in 1..Len(ms.shape) :
                    /\ ms.shape[d] * call.scale_factor[d] >= call.input.shape[d]
                    /\ (ms.shape[d] - 1) * call.scale_factor[d] < call.input.shape[d]
              /\ ms.shape = BlocksPerAxis(call.input.shape, call.scale_factor)
        /\ MergeReturned => ms.shape = call.shape

C8_Witness ==
    /\ DownsampleReturned
    /\ call.input # create_multiset_from_labels(labels)
    /\ \E d \in 1..Len(ms.shape) :
          call.scale_factor[d] = 2 /\ call.input.shape[d] = 3 /\ ms.shape[d] = 2

\* C9: after merge_multisets over a valid tiling (here already with the
\* pairs supplied in C-order), every voxel of every chunk references, through
\* the merged offsets at its global index, a valid global entry with the
\* histogram of the entry the chunk's own offsets reference.
C9_MergePreservesHistograms ==
    (MergeReturned /\ ConsistentPairs /\ InCOrder) =>
        \A b \in 0..(Len(call.multisets) - 1) :
            LET chunk == call.multisets[b + 1]
                global == get_indices(call.shape, call.chunks, b)
            IN  \A v \in 1..Len(chunk.offsets) :
                    /\ ms.offsets[global[v] + 1] < Len(ms.entry_sizes)
                    /\ Signature(EntryOf(ms, ms.offsets[global[v] + 1]))
                          = Signature(EntryOf(chunk, chunk.offsets[v]))

\* no two entries of the table have the same signature
TableDistinct(ids, counts, starts, sizes) ==
    \A e1, e2 \in 1..Len(sizes) :
        e1 # e2 => Signature(EntryPairs(ids, counts, starts[e1], sizes[e1]))
                      # Signature(EntryPairs(ids, counts, starts[e2], sizes[e2]))

\* C10: while chunks are folded into the merge helper, and in the merged
\* multiset, no two entries of the global table have the same signature,
\* so two voxels of the merged multiset with identical histograms reference
\* the same entry.
C10_MergeDeduplicates ==
    /\ pc = "merging" =>
          TableDistinct(m.merge_helper.ids, m.merge_helper.counts,
                        m.merge_helper.starts, m.merge_helper.sizes)
    /\ MergeReturned =>
          /\ TableDistinct(ms.ids, ms.counts, ms.entry_offsets, ms.entry_sizes)
          /\ SumSeq(ms.entry_sizes) = Len(ms.ids)
          /\ \A v, w \in 1..Len(ms.offsets) :
                Signature(EntryOf(ms, ms.offsets[v])) = Signature(EntryOf(ms, ms.offsets[w]))
                    => ms.offsets[v] = ms.offsets[w]

C10_Witness ==
    /\ MergeReturned /\ ConsistentPairs
    /\ Len(call.multisets) >= 2
    /\ Len(ms.entry_sizes) = 2
    /\ \E v \in 1..Len(get_indices(call.shape, call.chunks, 0)) :
       \E w \in 1..Len(get_indices(call.shape, call.chunks, 1)) :
          ms.offsets[get_indices(call.shape, call.chunks, 0)[v] + 1]
              = ms.offsets[get_indices(call.shape, call.chunks, 1)[w] + 1]

====
